---- MODULE Spec2Model ----
(***************************************************************************)
(* Model of pkg/webhook.go: the admission webhook's HTTP Handler and the   *)
(* image-whitelist validation it dispatches to.                            *)
(*                                                                         *)
(* Strings that the code inspects (image references, registry prefixes,    *)
(* messages) are sequences of tokens, so that strings.HasPrefix and        *)
(* fmt.Sprintf are computed rather than assumed.  A nil pointer is the     *)
(* empty sequence and a non-nil pointer to x is <<x>>.  A JSON object on   *)
(* the wire is a function from its member names to their values.           *)
(***************************************************************************)
EXTENDS Naturals, Sequences, FiniteSets, TLC

VARIABLES
    WhiteListRegistries,       \* s.WhiteListRegistries
    request,                   \* the *http.Request each handling unit was given
    pc,                        \* position of each handling unit in Handler/validate
    body,                      \* Handler local: body
    requestedAdmissionReview,  \* Handler local
    admissionResponse,         \* Handler local (pointer)
    local,                     \* validate locals: allowed, code, message, pod, loop positions
    writer,                    \* the http.ResponseWriter: status line and Write calls
    calls                      \* history: which collaborators the unit has invoked

vars == <<WhiteListRegistries, request, pc, body, requestedAdmissionReview,
          admissionResponse, local, writer, calls>>

----------------------------------------------------------------------------
(* Bounds of the model *)

NumRequests == 2       \* handling units in flight at once (ConcSpec)
MaxContainers == 2     \* containers of a pod
MaxRegistries == 2     \* entries of the whitelist

----------------------------------------------------------------------------
(* Values *)

Nil == <<>>
Ptr(x) == <<x>>
Deref(p) == p[1]

StatusBadRequest == 400
StatusForbidden == 403
StatusInternalServerError == 500
StatusOK == 200

Reqs == 1 .. NumRequests

\* image references and registry prefixes, as strings of characters
ImageRefs == { <<>>, <<"a">>, <<"a", "b">>, <<"b", "a">>, <<"A", "b">> }
Prefixes == { <<>>, <<"a">>, <<"a", "b">>, <<"b">> }

SeqsUpTo(S, n) == UNION { [1 .. k -> S] : k \in 0 .. n }

Policies == SeqsUpTo(Prefixes \ {<<>>}, MaxRegistries) \cup { << <<>> >> }

UIDs == { "u1", "u2" }

\* req.Object.Raw: bytes that either parse as a Pod or do not
RawPod(cs) == [valid |-> TRUE, containers |-> cs]
RawGarbage == [valid |-> FALSE, containers |-> <<>>]
Raws == { RawGarbage } \cup { RawPod(cs) : cs \in SeqsUpTo(ImageRefs, MaxContainers) }

AdmissionRequests == [UID : UIDs, Object : Raws]

TypeMetas == { [APIVersion |-> "", Kind |-> ""],
               [APIVersion |-> "admission.k8s.io/v1", Kind |-> "AdmissionReview"] }

\* the zero value of admissionV1.AdmissionReview
ZeroReview == [APIVersion |-> "", Kind |-> "", Request |-> Nil, Response |-> Nil]

\* Request bodies.  form "empty": zero bytes; "malformed": not JSON;
\* "mistyped": JSON whose last member has the wrong type, so that the
\* members before it are already stored when decoding fails; "ok": decodes.
EmptyBody == [form |-> "empty", APIVersion |-> "", Kind |-> "", Request |-> Nil]
MalformedBody == [form |-> "malformed", APIVersion |-> "", Kind |-> "", Request |-> Nil]
OkBodies ==
    { [form |-> "ok", APIVersion |-> tm.APIVersion, Kind |-> tm.Kind, Request |-> rq] :
        tm \in TypeMetas, rq \in {Nil} \cup { Ptr(a) : a \in AdmissionRequests } }
MistypedBodies ==
    { [form |-> "mistyped", APIVersion |-> tm.APIVersion, Kind |-> tm.Kind, Request |-> rq] :
        tm \in TypeMetas, rq \in {Nil} \cup { Ptr([UID |-> u, Object |-> RawGarbage]) : u \in UIDs } }
Bodies == { EmptyBody, MalformedBody } \cup OkBodies \cup MistypedBodies

Len0(b) == IF b.form = "empty" THEN 0 ELSE 1

ContentTypes == { "application/json", "text/plain", "application/json; charset=utf-8", "" }
Paths == { "/validate", "/mutate", "/other" }

\* An *http.Request with what the transport does to it: hasBody is
\* request.Body != nil, readErr is ioutil.ReadAll failing (data then holds
\* what was read before the failure), writeErr is writer.Write failing.
HttpRequest(hb, re, d, ct, p, we) ==
    [hasBody |-> hb, readErr |-> re, data |-> d, contentType |-> ct, path |-> p, writeErr |-> we]

NoRequest == HttpRequest(FALSE, FALSE, EmptyBody, "", "", FALSE)

\* requests whose transport preconditions fail
PreconditionInputs ==
    { HttpRequest(FALSE, FALSE, EmptyBody, ct, p, FALSE) : ct \in ContentTypes, p \in Paths }
    \cup { HttpRequest(TRUE, TRUE, d, ct, p, FALSE) :
             d \in {EmptyBody, MalformedBody}, ct \in ContentTypes, p \in Paths }
    \cup { HttpRequest(TRUE, FALSE, EmptyBody, ct, p, FALSE) : ct \in ContentTypes, p \in Paths }
    \cup { HttpRequest(TRUE, FALSE, d, ct, p, FALSE) :
             d \in {MalformedBody} \cup MistypedBodies \cup
                   { b \in OkBodies : b.Request = Nil },
             ct \in ContentTypes \ {"application/json"}, p \in Paths }

\* requests that reach the decoder
DecodedInputs ==
    { HttpRequest(TRUE, FALSE, d, "application/json", p, we) :
        d \in Bodies \ {EmptyBody}, p \in Paths, we \in BOOLEAN }

Inputs == PreconditionInputs \cup DecodedInputs

----------------------------------------------------------------------------
(* Library behaviour the Handler relies on *)

\* strings.HasPrefix(s, prefix): len(s) >= len(prefix) && s[:len(prefix)] == prefix
HasPrefix(s, prefix) ==
    Len(s) >= Len(prefix) /\ SubSeq(s, 1, Len(prefix)) = prefix

\* fmt's %v of a []string: the elements separated by spaces, in brackets
RECURSIVE JoinSpace(_)
JoinSpace(list) ==
    IF list = <<>> THEN <<>>
    ELSE IF Len(list) = 1 THEN list[1]
    ELSE list[1] \o <<" ">> \o JoinSpace(Tail(list))

FormatList(list) == <<"[">> \o JoinSpace(list) \o <<"]">>

\* fmt.Sprintf("%s image comes from untrusted registry! Only images form %v are allowed.", ...)
Sprintf(image, registries) ==
    image \o <<" image comes from untrusted registry! Only images form ">>
          \o FormatList(registries) \o <<" are allowed.">>

\* deserializer.Decode(body, nil, &into): the error (nil when it decodes)
\* and what `into` holds afterwards
Decode(b) ==
    CASE b.form = "ok" ->
           [err |-> Nil,
            into |-> [APIVersion |-> b.APIVersion, Kind |-> b.Kind,
                      Request |-> b.Request, Response |-> Nil]]
      [] b.form = "mistyped" ->
           [err |-> Ptr(<<"json: cannot unmarshal string into Go value">>),
            into |-> [APIVersion |-> b.APIVersion, Kind |-> b.Kind,
                      Request |-> b.Request, Response |-> Nil]]
      [] OTHER ->
           [err |-> Ptr(<<"couldn't get version/kind; json parse error">>),
            into |-> ZeroReview]

\* json.Unmarshal(req.Object.Raw, &pod)
Unmarshal(raw) ==
    IF raw.valid
    THEN [err |-> Nil, pod |-> [Containers |-> raw.containers]]
    ELSE [err |-> Ptr(<<"unexpected end of JSON input">>), pod |-> [Containers |-> <<>>]]

\* a JSON member that `omitempty` drops when it holds the zero value
OmitEmpty(name, value, zero) == IF value = zero THEN <<>> ELSE name :> value

\* json.Marshal of metav1.Status
MarshalStatus(st) ==
    ("metadata" :> <<>>) @@ OmitEmpty("message", st.Message, <<>>)
                         @@ OmitEmpty("code", st.Code, 0)

\* json.Marshal of admissionV1.AdmissionResponse
MarshalResponse(resp) ==
    ("uid" :> resp.UID) @@ ("allowed" :> resp.Allowed)
        @@ (IF resp.Result = Nil THEN <<>>
            ELSE "status" :> MarshalStatus(Deref(resp.Result)))

\* json.Marshal(responseAdmissionReview): never fails for the values the
\* Handler builds
Marshal(review) ==
    [err |-> Nil,
     bytes |-> OmitEmpty("kind", review.Kind, "")
               @@ OmitEmpty("apiVersion", review.APIVersion, "")
               @@ (IF review.Response = Nil THEN <<>>
                   ELSE "response" :> MarshalResponse(Deref(review.Response)))]

\* http.ResponseWriter: the first WriteHeader or Write fixes the status
NewWriter == [status |-> 0, out |-> <<>>]

WriteHeader(w, code) == IF w.status = 0 THEN [w EXCEPT !.status = code] ELSE w

Write(w, chunk) == [WriteHeader(w, StatusOK) EXCEPT !.out = Append(@, chunk)]

TextChunk(text) == [type |-> "text", text |-> text, json |-> <<>>]
JsonChunk(bytes) == [type |-> "json", text |-> "", json |-> bytes]

\* http.Error(w, text, code)
HttpError(w, text, code) == Write(WriteHeader(w, code), TextChunk(text))

\* the Handler returning: net/http sends 200 with whatever was written
\* when the Handler set no status itself
Return(w) == WriteHeader(w, StatusOK)

ZeroLocal == [allowed |-> FALSE, code |-> 0, message |-> <<>>,
              pod |-> [Containers |-> <<>>], container |-> 0, reg |-> 0,
              whitelisted |-> FALSE]

----------------------------------------------------------------------------
(* Handler *)

Init ==
    /\ WhiteListRegistries \in Policies
    /\ request = [r \in Reqs |-> NoRequest]
    /\ pc = [r \in Reqs |-> "idle"]
    /\ body = [r \in Reqs |-> EmptyBody]
    /\ requestedAdmissionReview = [r \in Reqs |-> ZeroReview]
    /\ admissionResponse = [r \in Reqs |-> Nil]
    /\ local = [r \in Reqs |-> ZeroLocal]
    /\ writer = [r \in Reqs |-> NewWriter]
    /\ calls = [r \in Reqs |-> {}]

\* the listener hands a request to a new handling unit
Serve(r, inputs) ==
    /\ pc[r] = "idle"
    /\ \E req \in inputs : request' = [request EXCEPT ![r] = req]
    /\ pc' = [pc EXCEPT ![r] = "Handler"]
    /\ UNCHANGED <<WhiteListRegistries, body, requestedAdmissionReview,
                   admissionResponse, local, writer, calls>>

\* mutant: the bytes read before a read error are kept as the body
ReadBodyKeepPartial(r) ==
    /\ pc[r] = "Handler"
    /\ LET req == request[r]
           data == IF req.hasBody THEN req.data ELSE EmptyBody
       IN /\ body' = [body EXCEPT ![r] = data]
          /\ IF Len0(data) = 0
             THEN /\ writer' = [writer EXCEPT ![r] =
                        Return(HttpError(@, "empty data body", StatusBadRequest))]
                  /\ pc' = [pc EXCEPT ![r] = "done"]
             ELSE /\ pc' = [pc EXCEPT ![r] = "contentType"]
                  /\ UNCHANGED writer
    /\ UNCHANGED <<WhiteListRegistries, request, requestedAdmissionReview,
                   admissionResponse, local, calls>>

\* lines 36-46: read the body, reject an empty one
ReadBody(r) ==
    /\ pc[r] = "Handler"
    /\ LET req == request[r]
           data == IF req.hasBody /\ ~req.readErr THEN req.data ELSE EmptyBody
       IN /\ body' = [body EXCEPT ![r] = data]
          /\ IF Len0(data) = 0
             THEN /\ writer' = [writer EXCEPT ![r] =
                        Return(HttpError(@, "empty data body", StatusBadRequest))]
                  /\ pc' = [pc EXCEPT ![r] = "done"]
             ELSE /\ pc' = [pc EXCEPT ![r] = "contentType"]
                  /\ UNCHANGED writer
    /\ UNCHANGED <<WhiteListRegistries, request, requestedAdmissionReview,
                   admissionResponse, local, calls>>

\* lines 48-54: the Content-Type check; the rejection is only logged
\* (klog.Error, not http.Error), so nothing is written before returning
CheckContentType(r) ==
    /\ pc[r] = "contentType"
    /\ IF request[r].contentType # "application/json"
       THEN /\ writer' = [writer EXCEPT ![r] = Return(@)]
            /\ pc' = [pc EXCEPT ![r] = "done"]
       ELSE /\ pc' = [pc EXCEPT ![r] = "decode"]
            /\ UNCHANGED writer
    /\ UNCHANGED <<WhiteListRegistries, request, body, requestedAdmissionReview,
                   admissionResponse, local, calls>>

\* mutant: a decode failure is reported with code 400
DecodeReviewBadRequest(r) ==
    /\ pc[r] = "decode"
    /\ LET d == Decode(body[r])
       IN /\ requestedAdmissionReview' = [requestedAdmissionReview EXCEPT ![r] = d.into]
          /\ calls' = [calls EXCEPT ![r] = @ \cup {"Decode"}]
          /\ IF d.err # Nil
             THEN /\ admissionResponse' = [admissionResponse EXCEPT ![r] =
                        Ptr([UID |-> "", Allowed |-> FALSE,
                             Result |-> Ptr([Message |-> Deref(d.err),
                                             Code |-> StatusBadRequest])])]
                  /\ pc' = [pc EXCEPT ![r] = "respond"]
             ELSE /\ UNCHANGED admissionResponse
                  /\ IF request[r].path = "/mutate"
                     THEN pc' = [pc EXCEPT ![r] = "respond"]
                     ELSE IF request[r].path = "/validate"
                          THEN pc' = [pc EXCEPT ![r] = "validate"]
                          ELSE pc' = [pc EXCEPT ![r] = "respond"]
    /\ UNCHANGED <<WhiteListRegistries, request, body, local, writer>>

\* lines 56-74: decode the AdmissionReview and dispatch on the URL path
DecodeReview(r) ==
    /\ pc[r] = "decode"
    /\ LET d == Decode(body[r])
       IN /\ requestedAdmissionReview' = [requestedAdmissionReview EXCEPT ![r] = d.into]
          /\ calls' = [calls EXCEPT ![r] = @ \cup {"Decode"}]
          /\ IF d.err # Nil
             THEN /\ admissionResponse' = [admissionResponse EXCEPT ![r] =
                        Ptr([UID |-> "", Allowed |-> FALSE,
                             Result |-> Ptr([Message |-> Deref(d.err),
                                             Code |-> StatusInternalServerError])])]
                  /\ pc' = [pc EXCEPT ![r] = "respond"]
             ELSE /\ UNCHANGED admissionResponse
                  /\ IF request[r].path = "/mutate"
                     THEN pc' = [pc EXCEPT ![r] = "respond"]
                     ELSE IF request[r].path = "/validate"
                          THEN pc' = [pc EXCEPT ![r] = "validate"]
                          ELSE pc' = [pc EXCEPT ![r] = "respond"]
    /\ UNCHANGED <<WhiteListRegistries, request, body, local, writer>>

----------------------------------------------------------------------------
(* validate *)

\* mutant: the early return after a failed unmarshal is missing
validateNoReturn(r) ==
    /\ pc[r] = "validate"
    /\ calls' = [calls EXCEPT ![r] = @ \cup {"validate"}]
    /\ LET req == requestedAdmissionReview[r].Request
       IN IF req = Nil
          THEN /\ pc' = [pc EXCEPT ![r] = "panic"]
               /\ UNCHANGED <<local, admissionResponse>>
          ELSE LET u == Unmarshal(Deref(req).Object)
               IN /\ local' = [local EXCEPT ![r] =
                        [ZeroLocal EXCEPT !.allowed = (u.err = Nil),
                                          !.code = IF u.err = Nil THEN StatusOK
                                                   ELSE StatusBadRequest,
                                          !.pod = u.pod, !.container = 1]]
                  /\ UNCHANGED admissionResponse
                  /\ pc' = [pc EXCEPT ![r] = "rangeContainers"]
    /\ UNCHANGED <<WhiteListRegistries, request, body, requestedAdmissionReview, writer>>

\* lines 106-127: the locals, the dereference of ar.Request (a nil pointer
\* panics; net/http recovers the panic and drops the connection without a
\* response), and the unmarshalling of the pod
validate(r) ==
    /\ pc[r] = "validate"
    /\ calls' = [calls EXCEPT ![r] = @ \cup {"validate"}]
    /\ LET req == requestedAdmissionReview[r].Request
       IN IF req = Nil
          THEN /\ pc' = [pc EXCEPT ![r] = "panic"]
               /\ UNCHANGED <<local, admissionResponse>>
          ELSE LET u == Unmarshal(Deref(req).Object)
               IN IF u.err # Nil
                  THEN /\ local' = [local EXCEPT ![r] =
                             [ZeroLocal EXCEPT !.allowed = FALSE, !.code = StatusBadRequest]]
                       /\ admissionResponse' = [admissionResponse EXCEPT ![r] =
                             Ptr([UID |-> "", Allowed |-> FALSE,
                                  Result |-> Ptr([Message |-> Deref(u.err),
                                                  Code |-> StatusBadRequest])])]
                       /\ pc' = [pc EXCEPT ![r] = "respond"]
                  ELSE /\ local' = [local EXCEPT ![r] =
                             [ZeroLocal EXCEPT !.allowed = TRUE, !.code = StatusOK,
                                               !.pod = u.pod, !.container = 1]]
                       /\ UNCHANGED admissionResponse
                       /\ pc' = [pc EXCEPT ![r] = "rangeContainers"]
    /\ UNCHANGED <<WhiteListRegistries, request, body, requestedAdmissionReview, writer>>

\* lines 130-131: the next container of the pod, if any
RangeContainers(r) ==
    /\ pc[r] = "rangeContainers"
    /\ IF local[r].container <= Len(local[r].pod.Containers)
       THEN /\ local' = [local EXCEPT ![r].whitelisted = FALSE, ![r].reg = 1]
            /\ pc' = [pc EXCEPT ![r] = "rangeRegistries"]
       ELSE /\ pc' = [pc EXCEPT ![r] = "validateReturn"]
            /\ UNCHANGED local
    /\ UNCHANGED <<WhiteListRegistries, request, body, requestedAdmissionReview,
                   admissionResponse, writer, calls>>

\* mutant: whitelisted is assigned the result of every comparison, so that
\* the last registry decides
RangeRegistriesLastWins(r) ==
    /\ pc[r] = "rangeRegistries"
    /\ calls' = [calls EXCEPT ![r] = @ \cup {"WhiteListRegistries"}]
    /\ LET l == local[r]
       IN IF l.reg <= Len(WhiteListRegistries)
          THEN /\ local' = [local EXCEPT
                     ![r].whitelisted =
                         HasPrefix(l.pod.Containers[l.container], WhiteListRegistries[l.reg]),
                     ![r].reg = @ + 1]
               /\ UNCHANGED pc
          ELSE /\ pc' = [pc EXCEPT ![r] = "ifWhitelisted"]
               /\ UNCHANGED local
    /\ UNCHANGED <<WhiteListRegistries, request, body, requestedAdmissionReview,
                   admissionResponse, writer>>

\* mutant: whitelisted is one variable shared by all handling units
RangeRegistriesShared(r) ==
    /\ pc[r] = "rangeRegistries"
    /\ calls' = [calls EXCEPT ![r] = @ \cup {"WhiteListRegistries"}]
    /\ LET l == local[r]
       IN IF l.reg <= Len(WhiteListRegistries)
          THEN /\ local' = [q \in Reqs |->
                     [local[q] EXCEPT
                        !.whitelisted =
                            IF HasPrefix(l.pod.Containers[l.container],
                                         WhiteListRegistries[l.reg])
                            THEN TRUE ELSE @,
                        !.reg = IF q = r THEN @ + 1 ELSE @]]
               /\ UNCHANGED pc
          ELSE /\ pc' = [pc EXCEPT ![r] = "ifWhitelisted"]
               /\ UNCHANGED local
    /\ UNCHANGED <<WhiteListRegistries, request, body, requestedAdmissionReview,
                   admissionResponse, writer>>

\* lines 132-136: one registry of the whitelist against the container's image
RangeRegistries(r) ==
    /\ pc[r] = "rangeRegistries"
    /\ calls' = [calls EXCEPT ![r] = @ \cup {"WhiteListRegistries"}]
    /\ LET l == local[r]
       IN IF l.reg <= Len(WhiteListRegistries)
          THEN /\ local' = [local EXCEPT
                     ![r].whitelisted =
                         IF HasPrefix(l.pod.Containers[l.container], WhiteListRegistries[l.reg])
                         THEN TRUE ELSE @,
                     ![r].reg = @ + 1]
               /\ UNCHANGED pc
          ELSE /\ pc' = [pc EXCEPT ![r] = "ifWhitelisted"]
               /\ UNCHANGED local
    /\ UNCHANGED <<WhiteListRegistries, request, body, requestedAdmissionReview,
                   admissionResponse, writer>>

\* mutant: the break is missing, the loop goes on to the next container
IfNotWhitelistedNoBreak(r) ==
    /\ pc[r] = "ifWhitelisted"
    /\ LET l == local[r]
       IN /\ IF ~l.whitelisted
             THEN /\ local' = [local EXCEPT
                        ![r].allowed = FALSE,
                        ![r].code = StatusForbidden,
                        ![r].message = Sprintf(l.pod.Containers[l.container],
                                               WhiteListRegistries),
                        ![r].container = @ + 1]
                  /\ calls' = [calls EXCEPT ![r] = @ \cup {"WhiteListRegistries"}]
             ELSE /\ local' = [local EXCEPT ![r].container = @ + 1]
                  /\ UNCHANGED calls
          /\ pc' = [pc EXCEPT ![r] = "rangeContainers"]
    /\ UNCHANGED <<WhiteListRegistries, request, body, requestedAdmissionReview,
                   admissionResponse, writer>>

\* mutant: `allowed = false` is missing where the violation is found
IfNotWhitelistedStillAllowed(r) ==
    /\ pc[r] = "ifWhitelisted"
    /\ LET l == local[r]
       IN IF ~l.whitelisted
          THEN /\ local' = [local EXCEPT
                     ![r].code = StatusForbidden,
                     ![r].message = Sprintf(l.pod.Containers[l.container], WhiteListRegistries)]
               /\ calls' = [calls EXCEPT ![r] = @ \cup {"WhiteListRegistries"}]
               /\ pc' = [pc EXCEPT ![r] = "validateReturn"]
          ELSE /\ local' = [local EXCEPT ![r].container = @ + 1]
               /\ UNCHANGED calls
               /\ pc' = [pc EXCEPT ![r] = "rangeContainers"]
    /\ UNCHANGED <<WhiteListRegistries, request, body, requestedAdmissionReview,
                   admissionResponse, writer>>

\* lines 137-144: deny and leave the loop at a container that is not whitelisted
IfNotWhitelisted(r) ==
    /\ pc[r] = "ifWhitelisted"
    /\ LET l == local[r]
       IN IF ~l.whitelisted
          THEN /\ local' = [local EXCEPT
                     ![r].allowed = FALSE,
                     ![r].code = StatusForbidden,
                     ![r].message = Sprintf(l.pod.Containers[l.container], WhiteListRegistries)]
               /\ calls' = [calls EXCEPT ![r] = @ \cup {"WhiteListRegistries"}]
               /\ pc' = [pc EXCEPT ![r] = "validateReturn"]
          ELSE /\ local' = [local EXCEPT ![r].container = @ + 1]
               /\ UNCHANGED calls
               /\ pc' = [pc EXCEPT ![r] = "rangeContainers"]
    /\ UNCHANGED <<WhiteListRegistries, request, body, requestedAdmissionReview,
                   admissionResponse, writer>>

\* lines 145-151: the AdmissionResponse validate returns to line 72
ValidateReturn(r) ==
    /\ pc[r] = "validateReturn"
    /\ admissionResponse' = [admissionResponse EXCEPT ![r] =
           Ptr([UID |-> "", Allowed |-> local[r].allowed,
                Result |-> Ptr([Message |-> local[r].message, Code |-> local[r].code])])]
    /\ pc' = [pc EXCEPT ![r] = "respond"]
    /\ UNCHANGED <<WhiteListRegistries, request, body, requestedAdmissionReview,
                   local, writer, calls>>

----------------------------------------------------------------------------
(* Handler, continued *)

\* mutant: the request's UID is not copied into the response
ResponseReviewNoUID(review, resp) ==
    [APIVersion |-> review.APIVersion,
     Kind |-> review.Kind,
     Request |-> Nil,
     Response |-> resp]

\* lines 76-87: the AdmissionReview sent back
ResponseReview(review, resp) ==
    [APIVersion |-> review.APIVersion,
     Kind |-> review.Kind,
     Request |-> Nil,
     Response |-> IF resp # Nil
                  THEN IF review.Request # Nil
                       THEN Ptr([Deref(resp) EXCEPT !.UID = Deref(review.Request).UID])
                       ELSE resp
                  ELSE Nil]

\* lines 76-104: build the response review, marshal it and write it
Respond(r) ==
    /\ pc[r] = "respond"
    /\ LET responseAdmissionReview ==
               ResponseReview(requestedAdmissionReview[r], admissionResponse[r])
           m == Marshal(responseAdmissionReview)
       IN /\ calls' = [calls EXCEPT ![r] = @ \cup {"Marshal"}]
          /\ IF m.err # Nil
             THEN writer' = [writer EXCEPT ![r] =
                      Return(HttpError(@, "Can't encode response", StatusBadRequest))]
             ELSE IF request[r].writeErr
                  THEN writer' = [writer EXCEPT ![r] =
                           Return(HttpError(Write(@, JsonChunk(m.bytes)),
                                            "Can't write response", StatusBadRequest))]
                  ELSE writer' = [writer EXCEPT ![r] = Return(Write(@, JsonChunk(m.bytes)))]
    /\ pc' = [pc EXCEPT ![r] = "done"]
    /\ UNCHANGED <<WhiteListRegistries, request, body, requestedAdmissionReview,
                   admissionResponse, local>>

----------------------------------------------------------------------------
(* Specifications *)

\* one request, drawn from every input of the model
Next ==
    \E r \in {1} :
        \/ Serve(r, Inputs)
        \/ ReadBody(r)
        \/ CheckContentType(r)
        \/ DecodeReview(r)
        \/ validate(r)
        \/ RangeContainers(r)
        \/ RangeRegistries(r)
        \/ IfNotWhitelisted(r)
        \/ ValidateReturn(r)
        \/ Respond(r)

Spec == Init /\ [][Next]_vars

\* requests and whitelists of the concurrent specification
ConcPolicies == { << <<"a">> >>, << <<"b">>, <<"a", "b">> >> }

ValidateRequest(u, images) ==
    HttpRequest(TRUE, FALSE,
                [form |-> "ok", APIVersion |-> "admission.k8s.io/v1", Kind |-> "AdmissionReview",
                 Request |-> Ptr([UID |-> u, Object |-> RawPod(images)])],
                "application/json", "/validate", FALSE)

ConcInputs ==
    { ValidateRequest("u1", << <<"a", "b">>, <<"b", "a">> >>),
      ValidateRequest("u2", << <<"a">> >>),
      ValidateRequest("u2", << <<"A", "b">>, <<"a">> >>),
      HttpRequest(TRUE, FALSE,
                  [form |-> "ok", APIVersion |-> "admission.k8s.io/v1",
                   Kind |-> "AdmissionReview", Request |-> Nil],
                  "application/json", "/validate", FALSE),
      HttpRequest(TRUE, FALSE,
                  [form |-> "ok", APIVersion |-> "admission.k8s.io/v1", Kind |-> "AdmissionReview",
                   Request |-> Ptr([UID |-> "u1", Object |-> RawGarbage])],
                  "application/json", "/validate", FALSE),
      HttpRequest(TRUE, FALSE, MalformedBody, "application/json", "/validate", TRUE),
      HttpRequest(TRUE, FALSE, MalformedBody, "text/plain", "/validate", FALSE),
      HttpRequest(TRUE, FALSE,
                  [form |-> "ok", APIVersion |-> "admission.k8s.io/v1", Kind |-> "AdmissionReview",
                   Request |-> Ptr([UID |-> "u2", Object |-> RawPod(<< <<"b", "a">> >>)])],
                  "application/json", "/mutate", FALSE),
      HttpRequest(TRUE, FALSE, EmptyBody, "application/json", "/validate", FALSE) }

ConcInit == Init /\ WhiteListRegistries \in ConcPolicies

\* NumRequests requests handled concurrently, their steps interleaved
ConcNext ==
    \E r \in Reqs :
        \/ Serve(r, ConcInputs)
        \/ ReadBody(r)
        \/ CheckContentType(r)
        \/ DecodeReview(r)
        \/ validate(r)
        \/ RangeContainers(r)
        \/ RangeRegistries(r)
        \/ IfNotWhitelisted(r)
        \/ ValidateReturn(r)
        \/ Respond(r)

ConcSpec == ConcInit /\ [][ConcNext]_vars

----------------------------------------------------------------------------
(* What a request is, and what its client receives *)

BodyMissing(req) == ~req.hasBody \/ req.readErr \/ req.data.form = "empty"

PassesPreconditions(req) == ~BodyMissing(req) /\ req.contentType = "application/json"

Decodes(req) == req.data.form = "ok"

HasRequestSection(req) == req.data.Request # Nil

Images(req) == Deref(req.data.Request).Object.containers

Extracts(req) == HasRequestSection(req) /\ Deref(req.data.Request).Object.valid

\* p is a literal prefix of s: s continues p character by character
IsLiteralPrefix(p, s) ==
    /\ Len(p) <= Len(s)
    /\ \A i \in 1 .. Len(p) : s[i] = p[i]

Compliant(image, policy) == \E i \in 1 .. Len(policy) : IsLiteralPrefix(policy[i], image)

AllCompliant(images, policy) == \A i \in 1 .. Len(images) : Compliant(images[i], policy)

FirstViolation(images, policy) ==
    CHOOSE i \in 1 .. Len(images) :
        /\ ~Compliant(images[i], policy)
        /\ \A j \in 1 .. (i - 1) : Compliant(images[j], policy)

Finished(r) == pc[r] \in {"done", "panic"}

Has(obj, name) == \E k \in DOMAIN obj : k = name

Member(obj, name, zero) == IF Has(obj, name) THEN obj[name] ELSE zero

\* the handling unit returned having passed a review envelope to writer.Write
WroteEnvelope(r) ==
    /\ pc[r] = "done"
    /\ writer[r].out # <<>>
    /\ writer[r].out[1].type = "json"

NoEnvelope(r) == \A i \in 1 .. Len(writer[r].out) : writer[r].out[i].type # "json"

Envelope(r) == writer[r].out[1].json

HasDecision(r) == WroteEnvelope(r) /\ Has(Envelope(r), "response")

DecisionAllowed(r) == Envelope(r)["response"]["allowed"]
DecisionUID(r) == Envelope(r)["response"]["uid"]
DecisionCode(r) == Member(Member(Envelope(r)["response"], "status", <<>>), "code", 0)
DecisionMessage(r) == Member(Member(Envelope(r)["response"], "status", <<>>), "message", <<>>)

Decision(allowed, code, message) == [allowed |-> allowed, code |-> code, message |-> message]

ObservedDecision(r) ==
    IF HasDecision(r)
    THEN Ptr(Decision(DecisionAllowed(r), DecisionCode(r), DecisionMessage(r)))
    ELSE Nil

\* the Decision a request gets when it is handled alone against `policy`
AloneDecision(req, policy) ==
    IF ~PassesPreconditions(req) THEN Nil
    ELSE IF ~Decodes(req)
         THEN Ptr(Decision(FALSE, 500, Deref(Decode(req.data).err)))
    ELSE IF req.path # "/validate" \/ ~HasRequestSection(req) THEN Nil
    ELSE IF ~Extracts(req)
         THEN Ptr(Decision(FALSE, 400, Deref(Unmarshal(Deref(req.data.Request).Object).err)))
    ELSE IF AllCompliant(Images(req), policy) THEN Ptr(Decision(TRUE, 200, <<>>))
    ELSE Ptr(Decision(FALSE, 403,
                      Sprintf(Images(req)[FirstViolation(Images(req), policy)], policy)))

----------------------------------------------------------------------------
(* Claims *)

\* validate has returned for a workload it extracted
ValidateReturned(r) ==
    /\ pc[r] \in {"respond", "done"}
    /\ "validate" \in calls[r]
    /\ Extracts(request[r])

\* C1: for every whitelist and every extracted workload, validate returns
\* allow=true, code=200, message="" exactly when every container image has a
\* whitelist entry as a literal prefix, and allow=false, code=403 otherwise.
C1_ValidateDecision ==
    \A r \in Reqs :
        ValidateReturned(r) =>
            LET resp == Deref(admissionResponse[r])
                st == Deref(resp.Result)
            IN IF AllCompliant(Images(request[r]), WhiteListRegistries)
               THEN resp.Allowed /\ st.Code = 200 /\ st.Message = <<>>
               ELSE ~resp.Allowed /\ st.Code = 403

\* two containers admitted through two different whitelist entries
C1_Witness ==
    \E r \in Reqs :
        /\ ValidateReturned(r)
        /\ Len(Images(request[r])) = 2
        /\ Len(WhiteListRegistries) = 2
        /\ Deref(admissionResponse[r]).Allowed
        /\ ~IsLiteralPrefix(WhiteListRegistries[2], Images(request[r])[1])
        /\ ~IsLiteralPrefix(WhiteListRegistries[1], Images(request[r])[2])

\* C2 (as claimed): a request with a non-empty body whose Content-Type is not
\* exactly application/json is answered with status 400 and no review envelope.
C2_WrongContentTypeIs400 ==
    \A r \in Reqs :
        ( /\ pc[r] = "done"
          /\ ~BodyMissing(request[r])
          /\ request[r].contentType # "application/json" )
        => (writer[r].status = 400 /\ NoEnvelope(r))

\* C3 (as claimed): on any URL path, the response to a request that passed
\* the preconditions and decoded carries the uid of the decoded request.
C3_UidOnAnyPath ==
    \A r \in Reqs :
        ( /\ WroteEnvelope(r)
          /\ Decodes(request[r])
          /\ HasRequestSection(request[r]) )
        => (HasDecision(r) /\ DecisionUID(r) = Deref(request[r].data.Request).UID)

\* C3 (amended): when the request decoded, every envelope written that embeds
\* a Decision is the answer to a /validate request and carries the uid of the
\* decoded request; on any other path the envelope embeds no Decision, hence
\* no uid.
C3_UidWithDecision ==
    \A r \in Reqs :
        (WroteEnvelope(r) /\ Decodes(request[r])) =>
            IF request[r].path = "/validate"
            THEN /\ HasDecision(r)
                 /\ HasRequestSection(request[r])
                 /\ DecisionUID(r) = Deref(request[r].data.Request).UID
            ELSE ~HasDecision(r)

C3_Witness ==
    \E r \in Reqs :
        /\ HasDecision(r)
        /\ Decodes(request[r])
        /\ DecisionUID(r) = "u2"
        /\ DecisionCode(r) = 403

\* C4 (as claimed): every request that passes the transport preconditions ends
\* with a written envelope mirroring the inbound API version and kind; the
\* handling never ends without a response.
C4_AlwaysAnEnvelope ==
    \A r \in Reqs :
        (Finished(r) /\ PassesPreconditions(request[r])) =>
            /\ WroteEnvelope(r)
            /\ Member(Envelope(r), "apiVersion", "") = request[r].data.APIVersion
            /\ Member(Envelope(r), "kind", "") = request[r].data.Kind

\* C5: on /validate, a non-empty body with the right Content-Type that fails
\* to decode is answered with status 200 and an envelope whose Decision is
\* allow=false, code=500, message = the decode error; validate is not invoked.
C5_DecodeFailure ==
    \A r \in Reqs :
        ( /\ Finished(r)
          /\ request[r].path = "/validate"
          /\ PassesPreconditions(request[r])
          /\ ~Decodes(request[r]) )
        => /\ writer[r].status = 200
           /\ HasDecision(r)
           /\ DecisionAllowed(r) = FALSE
           /\ DecisionCode(r) = 500
           /\ DecisionMessage(r) = Deref(Decode(request[r].data).err)
           /\ "validate" \notin calls[r]

\* a body that fails to decode after its request section was stored
C5_Witness ==
    \E r \in Reqs :
        /\ pc[r] = "done"
        /\ request[r].path = "/validate"
        /\ PassesPreconditions(request[r])
        /\ request[r].data.form = "mistyped"
        /\ HasRequestSection(request[r])
        /\ DecisionCode(r) = 500

\* C6: validate stops at the first container, in container order, that is not
\* whitelisted; the 403 message is built from that container's image and the
\* whole whitelist, whatever the later containers are.
C6_FirstViolation ==
    \A r \in Reqs :
        (ValidateReturned(r) /\ ~AllCompliant(Images(request[r]), WhiteListRegistries)) =>
            LET images == Images(request[r])
                first == FirstViolation(images, WhiteListRegistries)
                st == Deref(Deref(admissionResponse[r]).Result)
            IN /\ local[r].container = first
               /\ st.Code = 403
               /\ st.Message = Sprintf(images[first], WhiteListRegistries)
               /\ HasPrefix(st.Message, images[first])

\* the first of two containers is rejected and a different image follows it
C6_Witness ==
    \E r \in Reqs :
        /\ ValidateReturned(r)
        /\ Len(Images(request[r])) = 2
        /\ Images(request[r])[1] # Images(request[r])[2]
        /\ ~Compliant(Images(request[r])[1], WhiteListRegistries)
        /\ ~Compliant(Images(request[r])[2], WhiteListRegistries)
        /\ Deref(Deref(admissionResponse[r]).Result).Code = 403

\* C7: a request whose body is absent, unreadable or empty is answered, on
\* any path and with any Content-Type, with status 400 and a diagnostic text;
\* nothing is decoded, validate is not invoked, no envelope is written.
C7_EmptyBody ==
    \A r \in Reqs :
        (pc[r] # "idle" /\ BodyMissing(request[r])) =>
            /\ pc[r] \in {"Handler", "done"}
            /\ calls[r] = {}
            /\ pc[r] = "done" =>
                 /\ writer[r].status = 400
                 /\ Len(writer[r].out) = 1
                 /\ writer[r].out[1].type = "text"
                 /\ writer[r].out[1].text # ""

\* a body that could not be read to its end, on /validate with the right type
C7_Witness ==
    \E r \in Reqs :
        /\ pc[r] = "done"
        /\ request[r].readErr
        /\ request[r].data.form # "empty"
        /\ request[r].contentType = "application/json"
        /\ request[r].path = "/validate"
        /\ writer[r].status = 400

\* C8: whenever an envelope is written the transport status is 200, whatever
\* the Decision's code; a /validate request whose raw payload does not parse as
\* a workload gets an envelope with allow=false, code=400, message = the parse
\* error, and the whitelist is not consulted.
C8_ExtractFailure ==
    \A r \in Reqs :
        /\ WroteEnvelope(r) => writer[r].status = 200
        /\ ( /\ Finished(r)
             /\ request[r].path = "/validate"
             /\ PassesPreconditions(request[r])
             /\ Decodes(request[r])
             /\ HasRequestSection(request[r])
             /\ ~Extracts(request[r]) )
           => /\ HasDecision(r)
              /\ DecisionAllowed(r) = FALSE
              /\ DecisionCode(r) = 400
              /\ DecisionMessage(r) = Deref(Unmarshal(Deref(request[r].data.Request).Object).err)
              /\ "WhiteListRegistries" \notin calls[r]

C8_Witness ==
    \E r \in Reqs :
        /\ WroteEnvelope(r)
        /\ request[r].path = "/validate"
        /\ Decodes(request[r])
        /\ HasRequestSection(request[r])
        /\ ~Extracts(request[r])
        /\ DecisionCode(r) = 400
        /\ writer[r].status = 200

\* C9: under any interleaving of concurrently handled requests no step
\* modifies the whitelist, and every finished request has the Decision it
\* would get if it were handled alone against the same whitelist.
C9_Isolation ==
    /\ [][WhiteListRegistries' = WhiteListRegistries]_vars
    /\ [](\A r \in Reqs :
            Finished(r) => ObservedDecision(r) = AloneDecision(request[r], WhiteListRegistries))

\* two requests in the registry loop at once, one later denied, one allowed
C9_Witness ==
    \E r, q \in Reqs :
        /\ r # q
        /\ pc[r] = "done" /\ pc[q] = "rangeRegistries"
        /\ HasDecision(r) /\ DecisionCode(r) = 403
        /\ local[q].whitelisted

\* C10: an allow=true Decision is written only with code 200 and an empty
\* message, and only for a /validate request that passed the preconditions,
\* decoded, had its workload extracted and has only whitelisted images.
C10_DefaultDeny ==
    \A r \in Reqs :
        /\ (HasDecision(r) /\ DecisionAllowed(r)) =>
              /\ DecisionCode(r) = 200
              /\ DecisionMessage(r) = <<>>
              /\ request[r].path = "/validate"
              /\ PassesPreconditions(request[r])
              /\ Decodes(request[r])
              /\ Extracts(request[r])
              /\ AllCompliant(Images(request[r]), WhiteListRegistries)
        /\ \A i \in 1 .. Len(writer[r].out) :
              (writer[r].out[i].type = "json" /\ Has(writer[r].out[i].json, "response")
               /\ writer[r].out[i].json["response"]["allowed"]) => i = 1

\* an admitted pod with two containers
C10_Witness ==
    \E r \in Reqs :
        /\ HasDecision(r)
        /\ DecisionAllowed(r)
        /\ Len(Images(request[r])) = 2

====
